---------------------------- MODULE Spec2Model ----------------------------
(* A model of settings_parser/util.py: the memoizing descriptor             *)
(* cached_property, the decorator log_exceptions_warnings and the two       *)
(* logging context managers console_logger_level and no_logging.            *)
(*                                                                          *)
(* Four specifications share the module:                                    *)
(*   SpecCached   attribute accesses that each run to completion            *)
(*   SpecThreads  the same accesses, one source line at a time, by threads  *)
(*   SpecWrapper  one call of a function wrapped by log_exceptions_warnings *)
(*   SpecLogging  nested `with` blocks of the two logging context managers  *)
EXTENDS Integers, Sequences, FiniteSets, TLC

VARIABLES
    \* ---- cached_property
    cp,             \* the cached_property object: [method, name]
    attr,           \* the class attribute the object is bound to
    dict,           \* dict[i]: the __dict__ of instance i, a function on names
    calls,          \* calls[i]: how often self.method(inst) was invoked for i
    raises,         \* raises[i]: how many of these invocations raised
    accesses,       \* accesses[i]: attribute accesses made through instance i
    classAccesses,  \* attribute accesses made through the class
    last,           \* what the latest access did and gave its caller
    \* ---- threads running cached_property.__get__
    tpc, tinst, tresult, tret, tlate, tcount, stores,
    \* ---- log_exceptions_warnings
    function, args, wpc, warn_list, idx, ret, exc, log, emitted, outcome,
    \* ---- console_logger_level, no_logging
    handlers, disable, frames, lastExit

cachedVars  == <<cp, attr, dict, calls, raises, accesses, classAccesses, last>>
threadVars  == <<tpc, tinst, tresult, tret, tlate, tcount, stores>>
wrapperVars == <<function, args, wpc, warn_list, idx, ret, exc, log, emitted, outcome>>
loggingVars == <<handlers, disable, frames, lastExit>>
vars == <<cachedVars, threadVars, wrapperVars, loggingVars>>

(***************************************************************************)
(* Bounds                                                                  *)
(***************************************************************************)
MaxVal == 2
MaxAccess == 3
MaxThreadAccess == 2
MaxWarn == 2
MaxHandlers == 2
MaxDepth == 2

\* the instances of the owning class
Instances == {1, 2}
Values == 1..MaxVal
\* inst is None: the attribute is read on the class
NoInst == 0
Owners == Instances \cup {NoInst}
\* the name argument left at its default, None
NoName == "None"
Names == {"answer", "other"}
\* the name the class binds the cached_property to
AttrNames == {"answer"}
NameArgs == Names \cup {NoName, ""}
\* the errors a computation may raise
Errors == {"ValueError", "KeyError"}
\* what one invocation of self.method(inst) does
MethodOutcomes ==
    [kind : {"return"}, val : Values, err : {""}]
        \cup [kind : {"raise"}, val : {0}, err : Errors]

(***************************************************************************)
(* cached_property                                                         *)
(***************************************************************************)
\* `name or method.__name__`: None and the empty string are both falsy
cached_property_init(method, name) ==
    [method |-> method,
     name |-> IF name \in {NoName, ""} THEN method.name ELSE name]

\* setattr(inst, name, value) on an instance's __dict__ d
setattr(d, name, value) ==
    [n \in DOMAIN d \cup {name} |-> IF n = name THEN value ELSE d[n]]

\* __get__ without line 61: the result is returned and never stored
cached_property_get_unstored(self, inst, d, out) ==
    IF inst = NoInst
    THEN [kind |-> "self", val |-> 0, err |-> "", dict |-> d, invoked |-> FALSE]
    ELSE IF out.kind = "raise"
         THEN [kind |-> "raise", val |-> 0, err |-> out.err, dict |-> d,
               invoked |-> TRUE]
         ELSE [kind |-> "value", val |-> out.val, err |-> "", dict |-> d,
               invoked |-> TRUE]

\* __get__ without lines 54-57: the computation runs for the class as well
cached_property_get_on_class(self, inst, d, out) ==
    IF out.kind = "raise"
    THEN [kind |-> "raise", val |-> 0, err |-> out.err, dict |-> d,
          invoked |-> TRUE]
    ELSE [kind |-> "value", val |-> out.val, err |-> "",
          dict |-> setattr(d, self.name, out.val), invoked |-> TRUE]

\* __get__ that puts a placeholder under the name before it calls the method
cached_property_get_placeholder(self, inst, d, out) ==
    IF inst = NoInst
    THEN [kind |-> "self", val |-> 0, err |-> "", dict |-> d, invoked |-> FALSE]
    ELSE IF out.kind = "raise"
         THEN [kind |-> "raise", val |-> 0, err |-> out.err,
               dict |-> setattr(d, self.name, 0), invoked |-> TRUE]
         ELSE [kind |-> "value", val |-> out.val, err |-> "",
               dict |-> setattr(d, self.name, out.val), invoked |-> TRUE]

\* cached_property.__get__(self, inst, cls), with d the __dict__ of inst and
\* out what self.method(inst) does when it is invoked
cached_property_get(self, inst, d, out) ==
    IF inst = NoInst
    THEN [kind |-> "self", val |-> 0, err |-> "", dict |-> d, invoked |-> FALSE]
    ELSE IF out.kind = "raise"
         THEN [kind |-> "raise", val |-> 0, err |-> out.err, dict |-> d,
               invoked |-> TRUE]
         ELSE [kind |-> "value", val |-> out.val, err |-> "",
               dict |-> setattr(d, self.name, out.val), invoked |-> TRUE]

\* the class defines __get__ only, so the instance's __dict__ is looked up
\* before the descriptor is asked
InDict(i) == attr \in DOMAIN dict[i]

NoAccess ==
    [op |-> "none", inst |-> NoInst, kind |-> "none", val |-> 0, err |-> "",
     raised |-> "", invoked |-> FALSE]

\* one trip through the descriptor for owner inst (an instance, or NoInst)
Descriptor(inst) ==
    \E out \in MethodOutcomes :
      LET r == cached_property_get(cp, inst, dict[inst], out) IN
        /\ dict' = [dict EXCEPT ![inst] = r.dict]
        /\ calls' = [calls EXCEPT ![inst] = IF r.invoked THEN @ + 1 ELSE @]
        /\ raises' = [raises EXCEPT ![inst] = IF r.kind = "raise" THEN @ + 1 ELSE @]
        /\ last' = [op |-> IF inst = NoInst THEN "class" ELSE "get",
                    inst |-> inst, kind |-> r.kind, val |-> r.val, err |-> r.err,
                    raised |-> IF r.invoked THEN out.err ELSE "",
                    invoked |-> r.invoked]

CachedInit ==
    /\ \E m \in Names, n \in NameArgs : cp = cached_property_init([name |-> m], n)
    /\ attr \in AttrNames
    /\ dict = [i \in Owners |-> <<>>]
    /\ calls = [i \in Owners |-> 0]
    /\ raises = [i \in Owners |-> 0]
    /\ accesses = [i \in Instances |-> 0]
    /\ classAccesses = 0
    /\ last = NoAccess

\* `I.attr`, run to completion
Access(i) ==
    /\ accesses[i] < MaxAccess
    /\ accesses' = [accesses EXCEPT ![i] = @ + 1]
    /\ IF InDict(i)
       THEN /\ last' = [op |-> "get", inst |-> i, kind |-> "value",
                        val |-> dict[i][attr], err |-> "", raised |-> "",
                        invoked |-> FALSE]
            /\ UNCHANGED <<dict, calls, raises>>
       ELSE Descriptor(i)
    /\ UNCHANGED <<cp, attr, classAccesses>>

\* `Foo.attr`: the descriptor is asked with inst None
ClassAccess ==
    /\ classAccesses < MaxAccess
    /\ classAccesses' = classAccesses + 1
    /\ Descriptor(NoInst)
    /\ UNCHANGED <<cp, attr, accesses>>

(***************************************************************************)
(* cached_property.__get__ one source line at a time, run by threads       *)
(***************************************************************************)
\* the two threads that read the attribute
Threads == {1, 2}

\* line 59, `result = self.method(inst)`: the local result, or the error
method_call(out) ==
    IF out.kind = "raise"
    THEN [kind |-> "raise", val |-> 0, err |-> out.err]
    ELSE [kind |-> "value", val |-> out.val, err |-> ""]

\* line 61 as a setdefault: a value already stored is kept
store_result_if_absent(self, d, result) ==
    IF self.name \in DOMAIN d THEN d ELSE setattr(d, self.name, result)

\* line 61, `setattr(inst, self.name, result)`
store_result(self, d, result) == setattr(d, self.name, result)

\* line 62, `return result`
return_result(self, d, result) == result

NoReturn == [kind |-> "none", val |-> 0, own |-> 0, err |-> "", invoked |-> FALSE]

ThreadInit ==
    /\ tpc = [t \in Threads |-> "idle"]
    /\ tinst = [t \in Threads |-> NoInst]
    /\ tresult = [t \in Threads |-> 0]
    /\ tret = [t \in Threads |-> NoReturn]
    /\ tlate = [t \in Threads |-> FALSE]
    /\ tcount = [t \in Threads |-> 0]
    /\ stores = [i \in Instances |-> [done |-> FALSE, val |-> 0]]

\* thread t reads `I.attr`: the lookup in the instance's __dict__, and the
\* entry into __get__ (lines 49-57) when the name is not there
TStart(t, i) ==
    /\ tpc[t] = "idle"
    /\ tcount[t] < MaxThreadAccess
    /\ tcount' = [tcount EXCEPT ![t] = @ + 1]
    /\ tinst' = [tinst EXCEPT ![t] = i]
    /\ tlate' = [tlate EXCEPT ![t] = stores[i].done]
    /\ IF InDict(i)
       THEN /\ tret' = [tret EXCEPT ![t] = [kind |-> "value", val |-> dict[i][attr],
                                            own |-> 0, err |-> "",
                                            invoked |-> FALSE]]
            /\ UNCHANGED tpc
       ELSE /\ tpc' = [tpc EXCEPT ![t] = "get"]
            /\ tret' = [tret EXCEPT ![t] = NoReturn]
    /\ UNCHANGED <<cp, attr, dict, calls, raises, tresult, stores>>

\* line 59
TCompute(t) ==
    /\ tpc[t] = "get"
    /\ \E out \in MethodOutcomes :
         LET r == method_call(out) IN
           /\ calls' = [calls EXCEPT ![tinst[t]] = @ + 1]
           /\ IF r.kind = "raise"
              THEN /\ raises' = [raises EXCEPT ![tinst[t]] = @ + 1]
                   /\ tret' = [tret EXCEPT ![t] = [kind |-> "raise", val |-> 0,
                                                   own |-> 0, err |-> r.err,
                                                   invoked |-> TRUE]]
                   /\ tpc' = [tpc EXCEPT ![t] = "idle"]
                   /\ UNCHANGED tresult
              ELSE /\ tresult' = [tresult EXCEPT ![t] = r.val]
                   /\ tpc' = [tpc EXCEPT ![t] = "computed"]
                   /\ UNCHANGED <<raises, tret>>
    /\ UNCHANGED <<cp, attr, dict, tinst, tlate, tcount, stores>>

\* line 61
TStore(t) ==
    /\ tpc[t] = "computed"
    /\ dict' = [dict EXCEPT ![tinst[t]] = store_result(cp, @, tresult[t])]
    /\ stores' = [stores EXCEPT ![tinst[t]] = [done |-> TRUE, val |-> tresult[t]]]
    /\ tpc' = [tpc EXCEPT ![t] = "stored"]
    /\ UNCHANGED <<cp, attr, calls, raises, tinst, tresult, tret, tlate, tcount>>

\* line 62
TReturn(t) ==
    /\ tpc[t] = "stored"
    /\ tret' = [tret EXCEPT ![t] =
                  [kind |-> "value",
                   val |-> return_result(cp, dict[tinst[t]], tresult[t]),
                   own |-> tresult[t], err |-> "", invoked |-> TRUE]]
    /\ tpc' = [tpc EXCEPT ![t] = "idle"]
    /\ UNCHANGED <<cp, attr, dict, calls, raises, tinst, tresult, tlate, tcount,
                   stores>>

(***************************************************************************)
(* log_exceptions_warnings                                                 *)
(***************************************************************************)
\* the classes of the errors a wrapped function raises, with their bases
Parent ==
    [ValueError |-> "Exception", IndexError |-> "LookupError",
     LookupError |-> "Exception", ConfigError |-> "SyntaxError",
     SyntaxError |-> "Exception", KeyboardInterrupt |-> "BaseException",
     Exception |-> "BaseException", BaseException |-> "object"]

RECURSIVE IsSubclass(_, _)
IsSubclass(cls, base) ==
    IF cls = base THEN TRUE
    ELSE IF cls \notin DOMAIN Parent THEN FALSE
    ELSE IsSubclass(Parent[cls], base)

ExcClasses == {"ValueError", "IndexError", "ConfigError", "KeyboardInterrupt"}
ExcArgs == {<<>>, <<"boom">>, <<"boom", "detail">>}
Exceptions == [cls : ExcClasses, args : ExcArgs]
NoExc == [cls |-> "", args |-> <<>>]
\* what `exc.args[0]` raises on an empty tuple
TupleIndexError == [cls |-> "IndexError", args |-> <<"tuple index out of range">>]

\* the warnings a wrapped function emits
Categories == {[name |-> "UserWarning"], [name |-> "ConfigWarning"]}
WarningMessages == {[args |-> <<"bad value">>], [args |-> <<"old key">>]}
Filenames == {<<"pkg", "/", "mod.py">>, <<"run.py">>}
Linenos == {7, 12}
Warnings ==
    [category : Categories, message : WarningMessages, filename : Filenames,
     lineno : Linenos]
WarnSeqs == UNION {[1..n -> Warnings] : n \in 0..MaxWarn}

Modules == {"settings_parser.settings"}
CallArgs == {<<>>, <<1>>}
\* a wrapped function: the warnings it emits, then how it ends
Functions ==
    [module : Modules, warns : WarnSeqs, kind : {"return"}, exc : {NoExc}]
        \cup [module : Modules, warns : WarnSeqs, kind : {"raise"},
              exc : Exceptions]
\* the value function(*args, **kwargs) returns: its arguments
FunctionValue(f, a) == [from |-> f.module, args |-> a]
NoValue == [from |-> "", args |-> <<>>]

\* str(warn.message)
str_message(message) ==
    IF Len(message.args) = 0 THEN "" ELSE message.args[1]

RECURSIVE Join(_)
Join(parts) ==
    IF parts = <<>> THEN "" ELSE Head(parts) \o Join(Tail(parts))

RECURSIVE LastSep(_, _)
LastSep(path, i) ==
    IF i = 0 THEN 0 ELSE IF path[i] = "/" THEN i ELSE LastSep(path, i - 1)

\* os.path.basename: what follows the last separator
basename(path) ==
    Join(SubSeq(path, LastSep(path, Len(path)) + 1, Len(path)))

\* lines 80-82 with warn.filename in place of its basename
warning_msg_full_path(warn) ==
    warn.category.name \o ": \"" \o str_message(warn.message) \o "\" in "
        \o Join(warn.filename) \o ", line: " \o ToString(warn.lineno) \o "."

\* lines 80-82
warning_msg(warn) ==
    warn.category.name \o ": \"" \o str_message(warn.message) \o "\" in "
        \o basename(warn.filename) \o ", line: " \o ToString(warn.lineno) \o "."

\* lines 69-73 with `function()` in place of `function(*args, **kwargs)`
run_function_no_args(f, a) ==
    IF f.kind = "return"
    THEN [to |-> "loop", warn_list |-> f.warns, ret |-> FunctionValue(f, <<>>),
          exc |-> NoExc]
    ELSE IF IsSubclass(f.exc.cls, "Exception")
         THEN [to |-> "except", warn_list |-> f.warns, ret |-> NoValue,
               exc |-> f.exc]
         ELSE [to |-> "raise", warn_list |-> f.warns, ret |-> NoValue,
               exc |-> f.exc]

\* lines 69-73: the call under catch_warnings(record=True); an error that is
\* an Exception goes to the except clause, any other leaves the wrapper
run_function(f, a) ==
    IF f.kind = "return"
    THEN [to |-> "loop", warn_list |-> f.warns, ret |-> FunctionValue(f, a),
          exc |-> NoExc]
    ELSE IF IsSubclass(f.exc.cls, "Exception")
         THEN [to |-> "except", warn_list |-> f.warns, ret |-> NoValue,
               exc |-> f.exc]
         ELSE [to |-> "raise", warn_list |-> f.warns, ret |-> NoValue,
               exc |-> f.exc]

\* lines 74-77 with exc.args[-1] in place of exc.args[0]
except_clause_last_arg(f, e) ==
    IF Len(e.args) = 0
    THEN [log |-> <<>>, raised |-> TupleIndexError]
    ELSE [log |-> <<[logger |-> f.module, level |-> "ERROR",
                     msg |-> e.args[Len(e.args)]]>>,
          raised |-> e]

\* lines 74-77 with the logging skipped when exc.args is empty
except_clause_guarded(f, e) ==
    IF Len(e.args) = 0
    THEN [log |-> <<>>, raised |-> e]
    ELSE [log |-> <<[logger |-> f.module, level |-> "ERROR", msg |-> e.args[1]]>>,
          raised |-> e]

\* lines 74-77: logger.error(exc.args[0]), then raise
except_clause(f, e) ==
    IF Len(e.args) = 0
    THEN [log |-> <<>>, raised |-> TupleIndexError]
    ELSE [log |-> <<[logger |-> f.module, level |-> "ERROR", msg |-> e.args[1]]>>,
          raised |-> e]

\* lines 79-83: the record logger.warning(msg) hands to the logger
logged_warning(f, warn) ==
    [logger |-> f.module, level |-> "WARNING", msg |-> warning_msg(warn)]

\* line 85: warnings.warn(msg, warn.category)
reissued_warning(warn) ==
    [message |-> warning_msg(warn), category |-> warn.category]

NoOutcome == [kind |-> "none", value |-> NoValue, exc |-> NoExc]

WrapperInit ==
    /\ function \in Functions
    /\ args \in CallArgs
    /\ wpc = "call"
    /\ warn_list = <<>>
    /\ idx = 1
    /\ ret = NoValue
    /\ exc = NoExc
    /\ log = <<>>
    /\ emitted = <<>>
    /\ outcome = NoOutcome

\* lines 69-73
RunFunction ==
    /\ wpc = "call"
    /\ LET r == run_function(function, args) IN
         /\ warn_list' = r.warn_list
         /\ ret' = r.ret
         /\ exc' = r.exc
         /\ IF r.to = "raise"
            THEN /\ wpc' = "done"
                 /\ outcome' = [kind |-> "raise", value |-> NoValue, exc |-> r.exc]
            ELSE /\ wpc' = r.to
                 /\ UNCHANGED outcome
    /\ UNCHANGED <<function, args, idx, log, emitted>>

\* lines 74-77
Except ==
    /\ wpc = "except"
    /\ LET r == except_clause(function, exc) IN
         /\ log' = log \o r.log
         /\ outcome' = [kind |-> "raise", value |-> NoValue, exc |-> r.raised]
    /\ wpc' = "done"
    /\ UNCHANGED <<function, args, warn_list, idx, ret, exc, emitted>>

\* lines 78-85: one turn of `for warn in warn_list`
LoopWarn ==
    /\ wpc = "loop"
    /\ idx <= Len(warn_list)
    /\ log' = Append(log, logged_warning(function, warn_list[idx]))
    /\ emitted' = Append(emitted, reissued_warning(warn_list[idx]))
    /\ idx' = idx + 1
    /\ UNCHANGED <<function, args, wpc, warn_list, ret, exc, outcome>>

\* line 86
Return ==
    /\ wpc = "loop"
    /\ idx > Len(warn_list)
    /\ outcome' = [kind |-> "return", value |-> ret, exc |-> NoExc]
    /\ wpc' = "done"
    /\ UNCHANGED <<function, args, warn_list, idx, ret, exc, log, emitted>>

(***************************************************************************)
(* console_logger_level, no_logging                                        *)
(***************************************************************************)
\* logging.CRITICAL and logging.NOTSET
CRITICAL == 50
NOTSET == 0
\* the levels handlers stand at, and the levels console_logger_level is given
HandlerLevels == {NOTSET, 20}
LevelArgs == {10, 30}
DisableLevels == {NOTSET, 30}
\* a StreamHandler on sys.stdout, one on sys.stderr, a handler with no stream
HandlerKinds ==
    {[isStream |-> TRUE, stream |-> "stdout"],
     [isStream |-> TRUE, stream |-> "stderr"],
     [isStream |-> FALSE, stream |-> "none"]}
Handlers == [kind : HandlerKinds, level : HandlerLevels]

RECURSIVE FirstConsole(_, _)
\* lines 94-96: the first handler of the root logger that writes to sys.stdout
FirstConsole(hs, i) ==
    IF i > Len(hs) THEN 0
    ELSE IF hs[i].kind.isStream /\ hs[i].kind.stream = "stdout" THEN i
    ELSE FirstConsole(hs, i + 1)

\* lines 93-99 and 103: up to the yield
console_logger_level_enter(hs, level) ==
    LET k == FirstConsole(hs, 1) IN
      IF k = 0
      THEN [handlers |-> hs, found |-> 0, old_level |-> NOTSET]
      ELSE [handlers |-> [hs EXCEPT ![k].level = level], found |-> k,
            old_level |-> hs[k].level]

\* lines 100-101 and 104: after the yield; an error thrown in at the yield
\* leaves the generator there
console_logger_level_exit(hs, frame, how) ==
    IF how = "normal" /\ frame.found # 0
    THEN [hs EXCEPT ![frame.found].level = frame.old_level]
    ELSE hs

\* line 110
no_logging_enter(d) == CRITICAL

\* line 112, which an error thrown in at the yield of line 111 skips
no_logging_exit(d, how) == IF how = "normal" THEN NOTSET ELSE d

Levels(hs) == [k \in 1..Len(hs) |-> hs[k].level]

NoExit ==
    [cm |-> "none", how |-> "none", levelsBefore |-> <<>>, levelsAfter |-> <<>>,
     disableBefore |-> NOTSET, disableAfter |-> NOTSET, depth |-> 0]

LoggingInit ==
    /\ handlers \in UNION {[1..n -> Handlers] : n \in 0..MaxHandlers}
    /\ disable \in DisableLevels
    /\ frames = <<>>
    /\ lastExit = NoExit

\* `with console_logger_level(level):` is entered
EnterConsole(level) ==
    /\ Len(frames) < MaxDepth
    /\ LET r == console_logger_level_enter(handlers, level) IN
         /\ handlers' = r.handlers
         /\ frames' = Append(frames,
                [cm |-> "console_logger_level", found |-> r.found,
                 old_level |-> r.old_level, levelsBefore |-> Levels(handlers),
                 disableBefore |-> disable])
    /\ UNCHANGED <<disable, lastExit>>

\* `with no_logging():` is entered
EnterNoLogging ==
    /\ Len(frames) < MaxDepth
    /\ disable' = no_logging_enter(disable)
    /\ frames' = Append(frames,
           [cm |-> "no_logging", found |-> 0, old_level |-> NOTSET,
            levelsBefore |-> Levels(handlers), disableBefore |-> disable])
    /\ UNCHANGED <<handlers, lastExit>>

\* the innermost block is left, normally or by an error raised in it
ExitBlock(how) ==
    /\ frames # <<>>
    /\ LET top == frames[Len(frames)] IN
         /\ handlers' = IF top.cm = "console_logger_level"
                        THEN console_logger_level_exit(handlers, top, how)
                        ELSE handlers
         /\ disable' = IF top.cm = "no_logging"
                       THEN no_logging_exit(disable, how)
                       ELSE disable
         /\ lastExit' = [cm |-> top.cm, how |-> how,
                         levelsBefore |-> top.levelsBefore,
                         levelsAfter |-> Levels(handlers'),
                         disableBefore |-> top.disableBefore,
                         disableAfter |-> disable',
                         depth |-> Len(frames)]
    /\ frames' = SubSeq(frames, 1, Len(frames) - 1)

(***************************************************************************)
(* Specifications                                                          *)
(***************************************************************************)
\* the parts a specification does not exercise stay as constructed
CachedIdle ==
    /\ cp = cached_property_init([name |-> "answer"], NoName)
    /\ attr = "answer"
    /\ dict = [i \in Owners |-> <<>>]
    /\ calls = [i \in Owners |-> 0]
    /\ raises = [i \in Owners |-> 0]
    /\ accesses = [i \in Instances |-> 0]
    /\ classAccesses = 0
    /\ last = NoAccess

WrapperIdle ==
    /\ function = [module |-> "settings_parser.settings", warns |-> <<>>,
                   kind |-> "return", exc |-> NoExc]
    /\ args = <<>>
    /\ wpc = "idle"
    /\ warn_list = <<>>
    /\ idx = 1
    /\ ret = NoValue
    /\ exc = NoExc
    /\ log = <<>>
    /\ emitted = <<>>
    /\ outcome = NoOutcome

LoggingIdle ==
    /\ handlers = <<>>
    /\ disable = NOTSET
    /\ frames = <<>>
    /\ lastExit = NoExit

InitCached == CachedInit /\ ThreadInit /\ WrapperIdle /\ LoggingIdle
NextCached ==
    \/ \E i \in Instances : Access(i) /\ UNCHANGED <<threadVars, wrapperVars, loggingVars>>
    \/ ClassAccess /\ UNCHANGED <<threadVars, wrapperVars, loggingVars>>
SpecCached == InitCached /\ [][NextCached]_vars

InitThreads == CachedInit /\ ThreadInit /\ WrapperIdle /\ LoggingIdle
NextThreads ==
    \/ \E t \in Threads, i \in Instances :
         TStart(t, i) /\ UNCHANGED <<accesses, classAccesses, last, wrapperVars, loggingVars>>
    \/ \E t \in Threads :
         TCompute(t) /\ UNCHANGED <<accesses, classAccesses, last, wrapperVars, loggingVars>>
    \/ \E t \in Threads :
         TStore(t) /\ UNCHANGED <<accesses, classAccesses, last, wrapperVars, loggingVars>>
    \/ \E t \in Threads :
         TReturn(t) /\ UNCHANGED <<accesses, classAccesses, last, wrapperVars, loggingVars>>
SpecThreads == InitThreads /\ [][NextThreads]_vars

InitWrapper == CachedIdle /\ ThreadInit /\ WrapperInit /\ LoggingIdle
NextWrapper ==
    \/ RunFunction /\ UNCHANGED <<cachedVars, threadVars, loggingVars>>
    \/ Except /\ UNCHANGED <<cachedVars, threadVars, loggingVars>>
    \/ LoopWarn /\ UNCHANGED <<cachedVars, threadVars, loggingVars>>
    \/ Return /\ UNCHANGED <<cachedVars, threadVars, loggingVars>>
SpecWrapper == InitWrapper /\ [][NextWrapper]_vars

InitLogging == CachedIdle /\ ThreadInit /\ WrapperIdle /\ LoggingInit
NextLogging ==
    \/ \E level \in LevelArgs :
         EnterConsole(level) /\ UNCHANGED <<cachedVars, threadVars, wrapperVars>>
    \/ EnterNoLogging /\ UNCHANGED <<cachedVars, threadVars, wrapperVars>>
    \/ \E how \in {"normal", "error"} :
         ExitBlock(how) /\ UNCHANGED <<cachedVars, threadVars, wrapperVars>>
SpecLogging == InitLogging /\ [][NextLogging]_vars

\* the default specification is that of cached_property
Init == InitCached
Next == NextCached
Spec == SpecCached

(***************************************************************************)
(* Claims about cached_property, checked under SpecCached                  *)
(***************************************************************************)
\* the step is an access of the attribute through instance i
Accessed(i) == accesses'[i] # accesses[i]

\* C1, as stated: on every instance whose computation never raised, two or
\* more accesses of the attribute invoke the computation exactly once,
\* whatever name the cached_property was constructed with.
C1_OnceForAnyName ==
    \A i \in Instances : (raises[i] = 0 /\ accesses[i] >= 2) => calls[i] = 1

\* C1, amended: when the configured name is the attribute the object is bound
\* to, the first access whose computation returns runs it and stores the
\* result in the instance's own table, and every later access returns that
\* stored value without invoking the computation, so that the computation
\* returns at most once for each instance.
C1_Memoized ==
    /\ [](cp.name = attr =>
            \A i \in Instances :
              /\ calls[i] - raises[i] <= 1
              /\ (calls[i] > raises[i]) <=> InDict(i))
    /\ [][cp.name = attr =>
            \A i \in Instances :
              /\ (Accessed(i) /\ ~InDict(i) /\ last'.kind = "value") =>
                    /\ calls'[i] = calls[i] + 1
                    /\ dict'[i] = [n \in {attr} |-> last'.val]
              /\ (Accessed(i) /\ InDict(i)) =>
                    /\ calls' = calls
                    /\ dict' = dict
                    /\ last'.kind = "value"
                    /\ last'.val = dict[i][attr]]_vars

\* C1, witness: a third access answered from the instance's table after a
\* single invocation
C1_Witness ==
    /\ cp.name = attr
    /\ last.op = "get" /\ last.kind = "value" /\ ~last.invoked
    /\ accesses[last.inst] = 3
    /\ calls[last.inst] = 1
    /\ dict[last.inst][attr] = last.val

\* C7: an access through the class returns the cached_property object
\* itself, invokes no computation and stores nothing, before and after
\* accesses through instances.
C7_ClassAccess ==
    [][classAccesses' # classAccesses =>
          /\ last'.op = "class"
          /\ last'.kind = "self"
          /\ ~last'.invoked
          /\ calls' = calls
          /\ raises' = raises
          /\ dict' = dict]_vars

\* C7, witness: a class access made after an instance has cached a value
C7_Witness ==
    /\ last.op = "class" /\ last.kind = "self"
    /\ classAccesses >= 2
    /\ \E i \in Instances : InDict(i) /\ calls[i] = 1

\* C8: an error raised by the computation reaches the caller unchanged and
\* leaves the instance's table as it was, the next access on that instance
\* invokes the computation again, and only an access whose computation
\* returned stores a value.
C8_ErrorNotCached ==
    [][\A i \in Instances :
          /\ (Accessed(i) /\ last'.kind = "raise") =>
                /\ last'.invoked
                /\ last'.err = last'.raised
                /\ dict' = dict
          /\ (Accessed(i) /\ last.op = "get" /\ last.kind = "raise" /\ last.inst = i) =>
                /\ last'.invoked
                /\ calls'[i] = calls[i] + 1
          /\ dict'[i] # dict[i] =>
                /\ Accessed(i)
                /\ last'.kind = "value"
                /\ last'.invoked]_vars

\* C8, witness: an access that raised, then one that computed again and
\* cached
C8_Witness ==
    /\ last.op = "get" /\ last.kind = "value" /\ last.invoked
    /\ raises[last.inst] = 1
    /\ calls[last.inst] = 2
    /\ accesses[last.inst] = 2
    /\ cp.name \in DOMAIN dict[last.inst]

(***************************************************************************)
(* Claims about concurrent first accesses, checked under SpecThreads       *)
(***************************************************************************)
\* each access that invoked the computation returned its own result
OwnResult ==
    \A t \in Threads :
      (tret[t].kind = "value" /\ tret[t].invoked) => tret[t].val = tret[t].own

\* the instance holds the value of the store that happened last
LastStoreWins ==
    \A i \in Instances :
      stores[i].done =>
        /\ cp.name \in DOMAIN dict[i]
        /\ dict[i][cp.name] = stores[i].val

\* no access that started after a completed store is in, or went through,
\* the computation
NoLateInvocation ==
    \A t \in Threads :
      tlate[t] => /\ tpc[t] = "idle"
                  /\ ~tret[t].invoked

\* C10, as stated: for any cached_property, each access returns its own
\* result, the value left is the last one stored, and once a store has
\* completed no later-starting access invokes the computation.
C10_AnyName == OwnResult /\ LastStoreWins /\ NoLateInvocation

\* C10, amended: each access returns its own result and the value left is the
\* last one stored; when the configured name is the attribute the object is
\* bound to, no access starting after a completed store invokes the
\* computation.
C10_Race ==
    /\ OwnResult
    /\ LastStoreWins
    /\ cp.name = attr => NoLateInvocation

\* C10, witness: two threads both invoked the computation for one instance,
\* each got its own, different, value back, and the instance holds the
\* value stored last
C10_Witness ==
    /\ cp.name = attr
    /\ \E i \in Instances, t, u \in Threads :
         /\ t # u
         /\ tinst[t] = i /\ tinst[u] = i
         /\ tpc[t] = "idle" /\ tpc[u] = "idle"
         /\ tret[t].invoked /\ tret[u].invoked
         /\ tret[t].kind = "value" /\ tret[u].kind = "value"
         /\ tret[t].val # tret[u].val
         /\ calls[i] = 2
         /\ dict[i][attr] = tret[u].val

(***************************************************************************)
(* Claims about log_exceptions_warnings, checked under SpecWrapper         *)
(***************************************************************************)
Done == wpc = "done"
ErrorsLogged == SelectSeq(log, LAMBDA r : r.level = "ERROR")
WarningsLogged == SelectSeq(log, LAMBDA r : r.level = "WARNING")
\* the function ends by raising an error, an instance of Exception
RaisesError == function.kind = "raise" /\ IsSubclass(function.exc.cls, "Exception")

\* C2: when the function raises an error E (an Exception) with arguments,
\* the logger of the function's module receives exactly one error message,
\* E's first argument, and the caller receives E itself.
C2_ErrorLogged ==
    (Done /\ RaisesError /\ Len(function.exc.args) >= 1) =>
        /\ ErrorsLogged = <<[logger |-> function.module, level |-> "ERROR",
                             msg |-> function.exc.args[1]]>>
        /\ outcome = [kind |-> "raise", value |-> NoValue, exc |-> function.exc]

\* C2, witness: a ConfigError with two arguments, raised after a warning
C2_Witness ==
    /\ Done
    /\ function.exc = [cls |-> "ConfigError", args |-> <<"boom", "detail">>]
    /\ Len(function.warns) = 1
    /\ Len(log) = 1 /\ log[1].msg = "boom"
    /\ outcome.exc = function.exc

\* C3: whether the wrapped call ends by returning or by raising an error (an
\* Exception), every warning emitted during it has been logged at warning
\* severity and re-emitted.
C3_NoWarningDropped ==
    (Done /\ (function.kind = "return" \/ RaisesError)) =>
        /\ Len(WarningsLogged) = Len(function.warns)
        /\ Len(emitted) = Len(function.warns)

\* the text the format of the claim gives for each warning of the model
C4_Basename == [p \in Filenames |-> IF Len(p) = 1 THEN "run.py" ELSE "mod.py"]
C4_Line == [n \in Linenos |-> IF n = 7 THEN "7" ELSE "12"]
C4_Text(w) ==
    w.category.name \o ": \"" \o w.message.args[1] \o "\" in "
        \o C4_Basename[w.filename] \o ", line: " \o C4_Line[w.lineno] \o "."

\* C4: when the function returns after emitting w1..wn, n >= 1, the logger
\* receives exactly n warning messages and n warnings are re-emitted, in
\* emission order, the k-th with the text
\* <CategoryName>: "<message>" in <basename>, line: <line>. and the category
\* of wk, and the wrapper returns the function's value.
C4_WarningsReissued ==
    (Done /\ function.kind = "return" /\ Len(function.warns) >= 1) =>
        /\ log = [k \in 1..Len(function.warns) |->
                    [logger |-> function.module, level |-> "WARNING",
                     msg |-> C4_Text(function.warns[k])]]
        /\ emitted = [k \in 1..Len(function.warns) |->
                        [message |-> C4_Text(function.warns[k]),
                         category |-> function.warns[k].category]]
        /\ outcome = [kind |-> "return", value |-> FunctionValue(function, args),
                      exc |-> NoExc]

\* C4, witness: two warnings of different categories, files and lines
C4_Witness ==
    /\ Done /\ function.kind = "return"
    /\ Len(emitted) = 2
    /\ log[1].msg = "ConfigWarning: \"bad value\" in mod.py, line: 7."
    /\ log[2].msg = "UserWarning: \"old key\" in run.py, line: 12."
    /\ emitted[1].category.name = "ConfigWarning"
    /\ emitted[2].message = log[2].msg
    /\ outcome.kind = "return"

\* C5: when the function raises an error E (an Exception) with no arguments,
\* the caller receives another error than E, the one indexing E's first
\* argument raised, and the logger receives no error message.
C5_Masked ==
    (Done /\ RaisesError /\ Len(function.exc.args) = 0) =>
        /\ outcome.kind = "raise"
        /\ outcome.exc # function.exc
        /\ outcome.exc = TupleIndexError
        /\ ErrorsLogged = <<>>

\* C5, witness: an IndexError() raised by the function is replaced
C5_Witness ==
    /\ Done
    /\ function.kind = "raise"
    /\ function.exc = [cls |-> "IndexError", args |-> <<>>]
    /\ outcome.exc.args = <<"tuple index out of range">>
    /\ log = <<>>

\* C6: when the function returns without emitting a warning, the wrapper
\* returns what the function returns for those arguments, the logger
\* receives nothing and no warning is emitted.
C6_Transparent ==
    (Done /\ function.kind = "return" /\ function.warns = <<>>) =>
        /\ outcome = [kind |-> "return", value |-> FunctionValue(function, args),
                      exc |-> NoExc]
        /\ log = <<>>
        /\ emitted = <<>>

\* C6, witness: a call with an argument that returned
C6_Witness ==
    /\ Done /\ function.kind = "return" /\ function.warns = <<>>
    /\ args = <<1>>
    /\ outcome.value.args = <<1>>

(***************************************************************************)
(* Claims about the logging context managers, checked under SpecLogging    *)
(***************************************************************************)
\* C9: after a block of console_logger_level, or of no_logging, is left,
\* normally or by an error, nested or not, the handlers' levels, or the
\* disable threshold, are what they were when the block was entered.
C9_Restored ==
    /\ lastExit.cm = "console_logger_level" =>
          lastExit.levelsAfter = lastExit.levelsBefore
    /\ lastExit.cm = "no_logging" =>
          lastExit.disableAfter = lastExit.disableBefore

=============================================================================
